---- MODULE Spec2Model ----
(***************************************************************************)
(* A model of the pdbtbx structure hierarchy: the PDB aggregate root       *)
(* (src/structs/pdb.rs), Residue (src/structs/residue.rs) and Conformer    *)
(* (src/structs/conformer.rs).                                             *)
(*                                                                         *)
(* The three aggregates share no state.  A behaviour exercises one of      *)
(* them, chosen in Init (variable subject); every public operation of the  *)
(* chosen aggregate is one action.  Each action records the call in op,    *)
(* its result in ret and the aggregate as it was before the call in the    *)
(* prev_* variable, so that pre/post conditions are state predicates.      *)
(* Forget drops that record before the next call: the state after a call   *)
(* then depends on the aggregate and the call only, not on the call before *)
(* it.                                                                     *)
(*                                                                         *)
(* Strings are sequences of one-character strings.  Option<T> is a         *)
(* sequence of length 0 (None) or 1 (Some).  Vec<T> is a sequence; the     *)
(* source's 0-based index i is position i + 1.                             *)
(***************************************************************************)
EXTENDS Integers, Sequences, FiniteSets

VARIABLES
    subject,          \* which aggregate this behaviour exercises
    op,               \* the call that just returned: [name, args]; "idle" between calls
    ret,              \* what that call returned
    panicked,         \* TRUE once a call has panicked (the process is gone)
    cur_conformer,    \* Option<Conformer>: the Conformer under test
    prev_conformer,   \* conformer before the last call
    cur_residue,      \* Option<Residue>: the Residue under test
    prev_residue,     \* residue before the last call
    filtered_by,      \* predicate of the remove_atoms_by call that came last or just
                      \* before the remove_empty that came last, else "none"
    only_add_atom,    \* TRUE while the residue was built with no conformer and
                      \* nothing but add_atom was called on it
    pdb_models,       \* PDB.models: Vec<Model>
    pdb_buffer,       \* address of the heap buffer that holds PDB.models (0: none yet)
    prev_models,      \* models before the last call
    prev_buffer,      \* buffer before the last call
    explicit_fixup    \* TRUE once PDB::fix_pointers_of_children was called by the user

vars == <<subject, op, ret, panicked, cur_conformer, prev_conformer, cur_residue,
          prev_residue, filtered_by, only_add_atom, pdb_models, pdb_buffer,
          prev_models, prev_buffer, explicit_fixup>>

conformerVars == <<cur_conformer, prev_conformer>>
residueVars == <<cur_residue, prev_residue, filtered_by, only_add_atom>>
pdbVars == <<pdb_models, pdb_buffer, prev_models, prev_buffer, explicit_fixup>>

----------------------------------------------------------------------------
(* Bounds *)

\* longest identifier string handed to a Conformer constructor or setter
MaxLen == 2
\* most conformers a Residue holds
MaxConformers == 2
\* most atoms a Residue holds in total
MaxAtoms == 2
\* most models a PDB holds
MaxModels == 2
\* most chains of a model handed to add_model
MaxChains == 1

----------------------------------------------------------------------------
(* Option and sequence helpers *)

None == <<>>
Some(x) == <<x>>
IsSome(o) == Len(o) = 1
Unwrap(o) == o[1]

\* Vec::iter().position(test), given the positions (from 1) of the elements
\* that satisfy the test: the 0-based index of the first of them, as an Option
Position(hits) ==
    IF hits = {} THEN None
    ELSE Some((CHOOSE i \in hits : \A j \in hits : i <= j) - 1)

\* Vec::remove(index) for an index below the length
VecRemove(seq, index) ==
    [i \in 1..(Len(seq) - 1) |-> IF i <= index THEN seq[i] ELSE seq[i + 1]]

----------------------------------------------------------------------------
(* Identifier validation: the helper functions valid_identifier,           *)
(* valid_text and prepare_identifier, as section 4.1 of the specification  *)
(* describes them.                                                         *)
(* The alphabet is abstract, one character per class:                      *)
(*   "A"  identifier character in canonical form                           *)
(*   "a"  identifier character that canonicalisation changes (case)        *)
(*   " "  padding, accepted and removed at both ends by canonicalisation   *)
(*   "!"  outside the identifier alphabet, inside the free-text alphabet   *)
(*   "\t" outside both alphabets                                           *)

IdentifierAlphabet == {"A", "a", " "}
TextAlphabet == IdentifierAlphabet \cup {"!"}

valid_identifier(text) == \A i \in 1..Len(text) : text[i] \in IdentifierAlphabet

valid_text(text) == \A i \in 1..Len(text) : text[i] \in TextAlphabet

ToUpper(c) == IF c = "a" THEN "A" ELSE c

RECURSIVE TrimStart(_)
TrimStart(s) ==
    IF Len(s) > 0 /\ Head(s) = " " THEN TrimStart(Tail(s)) ELSE s

RECURSIVE TrimEnd(_)
TrimEnd(s) ==
    IF Len(s) > 0 /\ s[Len(s)] = " " THEN TrimEnd(SubSeq(s, 1, Len(s) - 1)) ELSE s

Canonical(text) ==
    LET t == TrimEnd(TrimStart(text))
    IN  [i \in 1..Len(t) |-> ToUpper(t[i])]

prepare_identifier(text) ==
    IF valid_identifier(text) THEN Some(Canonical(text)) ELSE None

----------------------------------------------------------------------------
(* Inputs *)

\* every string of at most n characters over the identifier alphabet and "!"
StringsUpTo(n) == UNION {[1..k -> TextAlphabet] : k \in 0..n}

\* identifier arguments of the Conformer constructor and setters
IdStrings == StringsUpTo(MaxLen)

\* the atoms handed to add_atom and the constructors (Atom is opaque here:
\* only its serial number, name and element are read)
AtomPool == {[serial_number |-> 1, name |-> <<"A">>, element |-> "C"],
             [serial_number |-> 2, name |-> <<"A", "A">>, element |-> "H"]}

\* the atoms handed to Conformer::add_atom: one more, with the serial number
\* and the name of another atom
ConformerAtomPool ==
    AtomPool \cup {[serial_number |-> 1, name |-> <<"A">>, element |-> "H"]}

Atom_serial_number(self) == self.serial_number

Atom_name(self) == self.name

\* arguments of the removals by serial number and by name
AtomSerialNumbers == {1, 2, 3}
AtomNames == {<<"A">>, <<"A", "A">>, <<"a">>}

\* atom predicates handed to remove_atoms_by
AtomPredicates == {"hydrogen", "always", "never"}

Holds(predicate, atom) ==
    CASE predicate = "hydrogen" -> atom.element = "H"
      [] predicate = "always" -> TRUE
      [] predicate = "never" -> FALSE

\* (standard name, comment) arguments of set_modification
StandardNames == {<<"A">>, <<"a", " ">>, <<"!">>, <<"A", "!">>}
Comments == {<<"a", "!">>, <<"\t">>, <<"!", "\t">>}

Opt(S) == {None} \cup {Some(x) : x \in S}

Call(name, args) == [name |-> name, args |-> args]

----------------------------------------------------------------------------
(* Conformer (src/structs/conformer.rs) *)

\* a constructor that gives up on an invalid alt_loc as well
Conformer_new_strict(name, alt_loc, atom) ==
    LET n == prepare_identifier(name)
        al == IF IsSome(alt_loc) THEN prepare_identifier(Unwrap(alt_loc)) ELSE None
    IN  IF IsSome(n) /\ (IsSome(alt_loc) => IsSome(al))
        THEN Some([name |-> Unwrap(n),
                   alternative_location |-> al,
                   atoms |-> IF IsSome(atom) THEN <<Unwrap(atom)>> ELSE <<>>,
                   modification |-> None])
        ELSE None

Conformer_new(name, alt_loc, atom) ==
    LET n == prepare_identifier(name)
        res0 == [name |-> Unwrap(n),
                 alternative_location |-> None,
                 atoms |-> <<>>,
                 modification |-> None]
        res1 == IF IsSome(alt_loc)
                THEN [res0 EXCEPT !.alternative_location =
                                      prepare_identifier(Unwrap(alt_loc))]
                ELSE res0
        res2 == IF IsSome(atom)
                THEN [res1 EXCEPT !.atoms = Append(@, Unwrap(atom))]
                ELSE res1
    IN  IF IsSome(n) THEN Some(res2) ELSE None

Conformer_name(self) == self.name

\* a set_name that stores the name without validating it
Conformer_set_name_unchecked(self, new_name) ==
    [self |-> [self EXCEPT !.name = Canonical(new_name)], ret |-> TRUE]

Conformer_set_name(self, new_name) ==
    LET n == prepare_identifier(new_name)
    IN  IF IsSome(n)
        THEN [self |-> [self EXCEPT !.name = Unwrap(n)], ret |-> TRUE]
        ELSE [self |-> self, ret |-> FALSE]

Conformer_alternative_location(self) == self.alternative_location

Conformer_set_alternative_location(self, new_loc) ==
    LET l == prepare_identifier(new_loc)
    IN  IF IsSome(l)
        THEN [self |-> [self EXCEPT !.alternative_location = Some(Unwrap(l))],
              ret |-> TRUE]
        ELSE [self |-> self, ret |-> FALSE]

Conformer_id(self) == <<self.name, Conformer_alternative_location(self)>>

Conformer_modification(self) == self.modification

\* Result<(), String>: "Ok", or which of the two error messages was built
Conformer_set_modification(self, new_modification) ==
    IF ~valid_identifier(new_modification[1])
    THEN [self |-> self, ret |-> "Err: standard name"]
    ELSE IF ~valid_text(new_modification[2])
    THEN [self |-> self, ret |-> "Err: comment"]
    ELSE [self |-> [self EXCEPT !.modification = Some(new_modification)],
          ret |-> "Ok"]

Conformer_atom_count(self) == Len(self.atoms)

Conformer_atoms(self) == self.atoms

Conformer_add_atom(self, new_atom) ==
    [self EXCEPT !.atoms = Append(@, new_atom)]

\* the predicate is one of AtomPredicates; Vec::retain is SelectSeq
Conformer_remove_atoms_by(self, predicate) ==
    [self EXCEPT !.atoms = SelectSeq(@, LAMBDA atom : ~Holds(predicate, atom))]

\* Vec::remove panics for an index not below the length
Conformer_remove_atom(self, index) ==
    IF index >= Len(self.atoms)
    THEN [self |-> self, panic |-> TRUE]
    ELSE [self |-> [self EXCEPT !.atoms = VecRemove(@, index)], panic |-> FALSE]

\* a removal that takes out every atom with the serial number
Conformer_remove_atom_by_serial_number_all(self, serial_number) ==
    LET hits == {i \in 1..Len(self.atoms) :
                    Atom_serial_number(self.atoms[i]) = serial_number}
    IN  [self |-> [self EXCEPT !.atoms =
                      SelectSeq(@, LAMBDA a : Atom_serial_number(a) # serial_number)],
         ret |-> hits # {},
         panic |-> FALSE]

Conformer_remove_atom_by_serial_number(self, serial_number) ==
    LET index == Position({i \in 1..Len(self.atoms) :
                              Atom_serial_number(self.atoms[i]) = serial_number})
    IN  IF IsSome(index)
        THEN LET r == Conformer_remove_atom(self, Unwrap(index))
             IN  [self |-> r.self, ret |-> TRUE, panic |-> r.panic]
        ELSE [self |-> self, ret |-> FALSE, panic |-> FALSE]

Conformer_remove_atom_by_name(self, name) ==
    LET index == Position({i \in 1..Len(self.atoms) :
                              Atom_name(self.atoms[i]) = name})
    IN  IF IsSome(index)
        THEN LET r == Conformer_remove_atom(self, Unwrap(index))
             IN  [self |-> r.self, ret |-> TRUE, panic |-> r.panic]
        ELSE [self |-> self, ret |-> FALSE, panic |-> FALSE]

\* a join that puts the other conformer's atoms first
Conformer_join_prepending(self, other) ==
    [self EXCEPT !.atoms = other.atoms \o @]

Conformer_join(self, other) ==
    [self EXCEPT !.atoms = @ \o other.atoms]

\* impl Clone: a new Conformer from the name and the alternative location
\* (expect panics if the constructor fails), then the atoms are copied
Conformer_clone(self) ==
    LET built == Conformer_new(self.name, Conformer_alternative_location(self), None)
    IN  IF IsSome(built)
        THEN [res |-> Some([Unwrap(built) EXCEPT !.atoms = self.atoms]),
              panic |-> FALSE]
        ELSE [res |-> None, panic |-> TRUE]

\* impl PartialEq
Conformer_eq(self, other) ==
    Conformer_id(self) = Conformer_id(other) /\ self.atoms = other.atoms

----------------------------------------------------------------------------
(* Residue (src/structs/residue.rs) *)

\* a set_insertion_code that clears the code it cannot replace
Residue_set_insertion_code_clearing(self, new_code) ==
    LET c == prepare_identifier(new_code)
    IN  IF IsSome(c)
        THEN [self |-> [self EXCEPT !.insertion_code = Some(Unwrap(c))],
              ret |-> TRUE]
        ELSE [self |-> [self EXCEPT !.insertion_code = None], ret |-> FALSE]

Residue_set_insertion_code(self, new_code) ==
    LET c == prepare_identifier(new_code)
    IN  IF IsSome(c)
        THEN [self |-> [self EXCEPT !.insertion_code = Some(Unwrap(c))],
              ret |-> TRUE]
        ELSE [self |-> self, ret |-> FALSE]

\* a constructor without the early return on an invalid insertion code
Residue_new_unvalidated(number, insertion_code, conformer) ==
    LET res0 == [serial_number |-> number,
                 insertion_code |-> None,
                 conformers |-> <<>>]
        res1 == IF IsSome(insertion_code)
                THEN Residue_set_insertion_code(res0, Unwrap(insertion_code)).self
                ELSE res0
    IN  Some(IF IsSome(conformer)
             THEN [res1 EXCEPT !.conformers = Append(@, Unwrap(conformer))]
             ELSE res1)

Residue_new(number, insertion_code, conformer) ==
    LET res0 == [serial_number |-> number,
                 insertion_code |-> None,
                 conformers |-> <<>>]
        \* the boolean set_insertion_code returns is dropped
        res1 == IF IsSome(insertion_code)
                THEN Residue_set_insertion_code(res0, Unwrap(insertion_code)).self
                ELSE res0
        res2 == IF IsSome(conformer)
                THEN [res1 EXCEPT !.conformers = Append(@, Unwrap(conformer))]
                ELSE res1
    IN  IF IsSome(insertion_code) /\ ~valid_identifier(Unwrap(insertion_code))
        THEN None
        ELSE Some(res2)

Residue_serial_number(self) == self.serial_number

Residue_insertion_code(self) == self.insertion_code

Residue_id(self) == <<self.serial_number, Residue_insertion_code(self)>>

\* a name() that does not compare the later conformers
Residue_name_first(self) ==
    IF Len(self.conformers) = 0 THEN None
    ELSE Some(Conformer_name(self.conformers[1]))

Residue_name(self) ==
    LET n == Len(self.conformers)
        res == Conformer_name(self.conformers[1])
    IN  IF n = 0 THEN None
        ELSE IF n = 1 THEN Some(Conformer_name(self.conformers[1]))
        ELSE IF \E i \in 2..n : res # Conformer_name(self.conformers[i])
             THEN None
             ELSE Some(res)

\* conformers().fold(0, |sum, res| res.atom_count() + sum)
RECURSIVE FoldAtomCount(_, _)
FoldAtomCount(conformers, sum) ==
    IF conformers = <<>> THEN sum
    ELSE FoldAtomCount(Tail(conformers),
                       Conformer_atom_count(Head(conformers)) + sum)

Residue_atom_count(self) == FoldAtomCount(self.conformers, 0)

\* conformers.iter().flat_map(|a| a.atoms()), collected
RECURSIVE FlatMapAtoms(_)
FlatMapAtoms(conformers) ==
    IF conformers = <<>> THEN <<>>
    ELSE Conformer_atoms(Head(conformers)) \o FlatMapAtoms(Tail(conformers))

\* an atoms() that does not go past the first conformer
Residue_atoms_first_only(self) ==
    IF self.conformers = <<>> THEN <<>> ELSE Conformer_atoms(Head(self.conformers))

Residue_atoms(self) == FlatMapAtoms(self.conformers)

Residue_add_conformer(self, new_conformer) ==
    [self EXCEPT !.conformers = Append(@, new_conformer)]

\* conformer_id is the caller's (&str, Option<&str>), compared as given
\* with the id() of each stored conformer
Residue_add_atom(self, new_atom, conformer_id) ==
    LET new_conformer == Conformer_new(conformer_id[1], conformer_id[2], None)
        found == Position({i \in 1..Len(self.conformers) :
                              Conformer_id(self.conformers[i]) = conformer_id})
        pushed == Append(self.conformers, Unwrap(new_conformer))
        target == IF IsSome(found) THEN Unwrap(found) + 1 ELSE Len(pushed)
        list == IF IsSome(found) THEN self.conformers ELSE pushed
    IN  IF ~IsSome(new_conformer)
        THEN [self |-> self, panic |-> TRUE]
        ELSE [self |-> [self EXCEPT !.conformers =
                            [list EXCEPT ![target] = Conformer_add_atom(@, new_atom)]],
              panic |-> FALSE]

Residue_remove_empty(self) ==
    [self EXCEPT !.conformers = SelectSeq(@, LAMBDA c : Conformer_atom_count(c) > 0)]

\* a remove_atoms_by that also drops the conformers it empties
Residue_remove_atoms_by_pruning(self, predicate) ==
    [self EXCEPT !.conformers =
        SelectSeq([i \in 1..Len(@) |-> Conformer_remove_atoms_by(@[i], predicate)],
                  LAMBDA c : Conformer_atom_count(c) > 0)]

Residue_remove_atoms_by(self, predicate) ==
    [self EXCEPT !.conformers =
        [i \in 1..Len(@) |-> Conformer_remove_atoms_by(@[i], predicate)]]

Residue_remove_conformer(self, index) ==
    IF index >= Len(self.conformers)
    THEN [self |-> self, panic |-> TRUE]
    ELSE [self |-> [self EXCEPT !.conformers = VecRemove(@, index)],
          panic |-> FALSE]

Residue_remove_conformer_by_id(self, id) ==
    LET index == Position({i \in 1..Len(self.conformers) :
                              Conformer_id(self.conformers[i]) = id})
    IN  IF IsSome(index)
        THEN LET r == Residue_remove_conformer(self, Unwrap(index))
             IN  [self |-> r.self, ret |-> TRUE, panic |-> r.panic]
        ELSE [self |-> self, ret |-> FALSE, panic |-> FALSE]

Residue_join(self, other) ==
    [self EXCEPT !.conformers = @ \o other.conformers]

----------------------------------------------------------------------------
(* PDB (src/structs/pdb.rs) and the Model it owns.                         *)
(* A back-reference is a raw pointer.  The PDB stays at one address; a     *)
(* Model lives in the heap buffer of PDB.models, so its address is the     *)
(* buffer together with its index.  Model keeps a pointer to its PDB and   *)
(* every Chain of it a pointer to its Model.                               *)

NullPointer == [kind |-> "null", buffer |-> 0, index |-> 0]
PdbAddress == [kind |-> "pdb", buffer |-> 0, index |-> 0]
ModelAddress(buf, index) == [kind |-> "model", buffer |-> buf, index |-> index]

\* Model: the methods PDB calls, as PDB::fix_pointers_of_children has
\* them one level up (section 4.5 of the specification)
Model_set_pdb_pointer(self, reference) == [self EXCEPT !.pdb = reference]

Model_fix_pointers_of_children(self, self_address) ==
    [self EXCEPT !.chains = [c \in 1..Len(@) |-> [@[c] EXCEPT !.model = self_address]]]

Model_serial_number(self) == self.serial_number

\* Vec::push leaves the elements in the buffer at address buf, the old
\* buffer or a new one
PDB_add_model(self_models, new_model, buf) ==
    LET pushed == Append(self_models, new_model)
        last == Len(pushed)
    IN  [models |-> [pushed EXCEPT ![last] =
                        Model_fix_pointers_of_children(@, ModelAddress(buf, last - 1))],
         buffer |-> buf]

PDB_fix_pointers_of_children(self_models, self_buffer) ==
    [i \in 1..Len(self_models) |->
        Model_fix_pointers_of_children(
            Model_set_pdb_pointer(self_models[i], PdbAddress),
            ModelAddress(self_buffer, i - 1))]

PDB_remove_model(self_models, index) ==
    IF index >= Len(self_models)
    THEN [models |-> self_models, panic |-> TRUE]
    ELSE [models |-> VecRemove(self_models, index), panic |-> FALSE]

PDB_remove_model_serial_number(self_models, serial_number) ==
    LET index == Position({i \in 1..Len(self_models) :
                              Model_serial_number(self_models[i]) = serial_number})
    IN  IF IsSome(index)
        THEN LET r == PDB_remove_model(self_models, Unwrap(index))
             IN  [models |-> r.models, ret |-> TRUE, panic |-> r.panic]
        ELSE [models |-> self_models, ret |-> FALSE, panic |-> FALSE]

----------------------------------------------------------------------------
(* Inputs of the Residue and PDB operations *)

SerialNumbers == {0, 10}

\* insertion codes handed to Residue::new and set_insertion_code
InsertionCodes == {<<"A">>, <<"a">>, <<" ", "a">>, <<"!">>, <<"a", "!">>}

\* conformer_id arguments: canonical, not canonical, with a valid and with
\* an invalid alternative location, with an invalid name
ConformerIds == {<<(<<"A">>), None>>,
                 <<(<<"a">>), None>>,
                 <<(<<"A">>), Some(<<"A">>)>>,
                 <<(<<"A">>), Some(<<"!">>)>>,
                 <<(<<"A", "A">>), None>>,
                 <<(<<"!">>), None>>}

ElementsOf(o) == {o[i] : i \in 1..Len(o)}

\* conformers handed to Residue::new, add_conformer and (inside a Residue)
\* join: whatever Conformer::new builds from the ids above
Conformers == UNION {ElementsOf(Conformer_new(id[1], id[2], a)) :
                        id \in ConformerIds, a \in Opt(AtomPool)}

\* the other Residue of a join: with no, one or two conformers
JoinResiduesUpToOne ==
    UNION {ElementsOf(Residue_new(10, Some(<<"a">>), c)) : c \in Opt(Conformers)}

JoinResidues ==
    JoinResiduesUpToOne \cup
    {Residue_add_conformer(r, c) : r \in JoinResiduesUpToOne \ {Unwrap(Residue_new(10, Some(<<"a">>), None))},
                                   c \in Conformers}

\* the other Conformer of a join: its own name, alternative location and
\* modification, and any atoms
JoinConformers ==
    LET built == Unwrap(Conformer_new(<<"a", "a">>, Some(<<"a">>), None))
        other == Conformer_set_modification(built, <<(<<"A">>), (<<"a", "!">>)>>).self
    IN  {[other EXCEPT !.atoms = as] :
            as \in UNION {[1..k -> ConformerAtomPool] : k \in 0..MaxAtoms}}

ModelSerialNumbers == {1, 2}

\* where the allocator may put the buffer of PDB.models
BufferAddresses == {1, 2}

\* a freshly built Model: no back-reference set yet
NewModels ==
    {[serial_number |-> n,
      pdb |-> NullPointer,
      chains |-> [c \in 1..k |-> [model |-> NullPointer]]] :
        n \in ModelSerialNumbers, k \in 0..MaxChains}

WithinBounds(r) ==
    /\ Len(r.conformers) <= MaxConformers
    /\ Residue_atom_count(r) <= MaxAtoms

----------------------------------------------------------------------------
(* The state machine *)

Init ==
    /\ subject \in {"Conformer", "Residue", "PDB"}
    /\ op = Call("init", <<>>)
    /\ ret = None
    /\ panicked = FALSE
    /\ cur_conformer = None
    /\ prev_conformer = None
    /\ cur_residue = None
    /\ prev_residue = None
    /\ filtered_by = "none"
    /\ only_add_atom = FALSE
    /\ pdb_models = <<>>
    /\ pdb_buffer = 0
    /\ prev_models = <<>>
    /\ prev_buffer = 0
    /\ explicit_fixup = FALSE

(* Conformer.  A behaviour constructs one object (a failed construction   *)
(* leaves none, and the behaviour ends) and then calls its methods.        *)

Idle == op.name = "idle"

OnConformer == subject = "Conformer" /\ ~panicked

\* a Conformer method call that leaves the conformer c, returns v, or panics
ConformerStep(name, args, c, v, panic) ==
    /\ cur_conformer' = Some(c)
    /\ prev_conformer' = cur_conformer
    /\ ret' = v
    /\ panicked' = panic
    /\ op' = Call(name, args)
    /\ UNCHANGED <<subject, residueVars, pdbVars>>

ConformerNew ==
    /\ OnConformer
    /\ op.name = "init"
    /\ \E name \in IdStrings, alt_loc \in Opt(IdStrings), atom \in Opt(AtomPool) :
          /\ cur_conformer' = Conformer_new(name, alt_loc, atom)
          /\ ret' = Conformer_new(name, alt_loc, atom)
          /\ op' = Call("Conformer::new", <<name, alt_loc, atom>>)
    /\ prev_conformer' = cur_conformer
    /\ UNCHANGED <<subject, panicked, residueVars, pdbVars>>

ConformerSetName ==
    /\ OnConformer
    /\ Idle
    /\ IsSome(cur_conformer)
    /\ \E new_name \in IdStrings :
          LET r == Conformer_set_name(Unwrap(cur_conformer), new_name)
          IN  ConformerStep("Conformer::set_name", <<new_name>>, r.self, r.ret, FALSE)

ConformerSetAlternativeLocation ==
    /\ OnConformer
    /\ Idle
    /\ IsSome(cur_conformer)
    /\ \E new_loc \in IdStrings :
          LET r == Conformer_set_alternative_location(Unwrap(cur_conformer), new_loc)
          IN  ConformerStep("Conformer::set_alternative_location", <<new_loc>>,
                            r.self, r.ret, FALSE)

ConformerSetModification ==
    /\ OnConformer
    /\ Idle
    /\ IsSome(cur_conformer)
    /\ \E standard_name \in StandardNames, comment \in Comments :
          LET new_modification == <<standard_name, comment>>
              r == Conformer_set_modification(Unwrap(cur_conformer), new_modification)
          IN  ConformerStep("Conformer::set_modification", <<new_modification>>,
                            r.self, r.ret, FALSE)

ConformerAddAtom ==
    /\ OnConformer
    /\ Idle
    /\ IsSome(cur_conformer)
    /\ Conformer_atom_count(Unwrap(cur_conformer)) < MaxAtoms
    /\ \E new_atom \in ConformerAtomPool :
          ConformerStep("Conformer::add_atom", <<new_atom>>,
                        Conformer_add_atom(Unwrap(cur_conformer), new_atom),
                        None, FALSE)

ConformerRemoveAtom ==
    /\ OnConformer
    /\ Idle
    /\ IsSome(cur_conformer)
    /\ \E index \in 0..MaxAtoms :
          LET r == Conformer_remove_atom(Unwrap(cur_conformer), index)
          IN  ConformerStep("Conformer::remove_atom", <<index>>,
                            r.self, None, r.panic)

ConformerRemoveAtomBySerialNumber ==
    /\ OnConformer
    /\ Idle
    /\ IsSome(cur_conformer)
    /\ \E serial_number \in AtomSerialNumbers :
          LET r == Conformer_remove_atom_by_serial_number(Unwrap(cur_conformer),
                                                          serial_number)
          IN  ConformerStep("Conformer::remove_atom_by_serial_number",
                            <<serial_number>>, r.self, r.ret, r.panic)

ConformerRemoveAtomByName ==
    /\ OnConformer
    /\ Idle
    /\ IsSome(cur_conformer)
    /\ \E name \in AtomNames :
          LET r == Conformer_remove_atom_by_name(Unwrap(cur_conformer), name)
          IN  ConformerStep("Conformer::remove_atom_by_name", <<name>>,
                            r.self, r.ret, r.panic)

ConformerJoin ==
    /\ OnConformer
    /\ Idle
    /\ IsSome(cur_conformer)
    /\ \E other \in JoinConformers :
          LET c == Conformer_join(Unwrap(cur_conformer), other)
          IN  /\ Conformer_atom_count(c) <= MaxAtoms
              /\ ConformerStep("Conformer::join", <<other>>, c, None, FALSE)

\* the clone is what the call returns; the conformer itself stays
ConformerClone ==
    /\ OnConformer
    /\ Idle
    /\ IsSome(cur_conformer)
    /\ LET r == Conformer_clone(Unwrap(cur_conformer))
       IN  ConformerStep("Conformer::clone", <<>>, Unwrap(cur_conformer),
                         r.res, r.panic)

(* Residue *)

OnResidue == subject = "Residue" /\ ~panicked

\* a Residue method call that leaves the residue r, returns v, or panics
ResidueStep(name, args, r, v, panic) ==
    /\ cur_residue' = Some(r)
    /\ prev_residue' = cur_residue
    /\ ret' = v
    /\ panicked' = panic
    /\ op' = Call(name, args)
    /\ UNCHANGED <<subject, conformerVars, pdbVars>>

ResidueNew ==
    /\ OnResidue
    /\ op.name = "init"
    /\ \E number \in SerialNumbers, insertion_code \in Opt(InsertionCodes),
          conformer0 \in Opt(Conformers) :
          /\ cur_residue' = Residue_new(number, insertion_code, conformer0)
          /\ ret' = Residue_new(number, insertion_code, conformer0)
          /\ op' = Call("Residue::new", <<number, insertion_code, conformer0>>)
          /\ only_add_atom' = (IsSome(Residue_new(number, insertion_code, conformer0))
                               /\ conformer0 = None)
    /\ prev_residue' = cur_residue
    /\ UNCHANGED <<subject, panicked, filtered_by, conformerVars, pdbVars>>

ResidueSetInsertionCode ==
    /\ OnResidue
    /\ Idle
    /\ IsSome(cur_residue)
    /\ \E new_code \in InsertionCodes :
          LET r == Residue_set_insertion_code(Unwrap(cur_residue), new_code)
          IN  ResidueStep("Residue::set_insertion_code", <<new_code>>,
                          r.self, r.ret, FALSE)
    /\ filtered_by' = "none"
    /\ only_add_atom' = FALSE

ResidueAddConformer ==
    /\ OnResidue
    /\ Idle
    /\ IsSome(cur_residue)
    /\ \E new_conformer \in Conformers :
          LET r == Residue_add_conformer(Unwrap(cur_residue), new_conformer)
          IN  /\ WithinBounds(r)
              /\ ResidueStep("Residue::add_conformer", <<new_conformer>>,
                             r, None, FALSE)
    /\ filtered_by' = "none"
    /\ only_add_atom' = FALSE

ResidueAddAtom ==
    /\ OnResidue
    /\ Idle
    /\ IsSome(cur_residue)
    /\ \E new_atom \in AtomPool, conformer_id \in ConformerIds :
          LET r == Residue_add_atom(Unwrap(cur_residue), new_atom, conformer_id)
          IN  /\ WithinBounds(r.self)
              /\ ResidueStep("Residue::add_atom", <<new_atom, conformer_id>>,
                             r.self, None, r.panic)
    /\ filtered_by' = "none"
    /\ UNCHANGED only_add_atom

ResidueRemoveAtomsBy ==
    /\ OnResidue
    /\ Idle
    /\ IsSome(cur_residue)
    /\ \E predicate \in AtomPredicates :
          LET r == Residue_remove_atoms_by(Unwrap(cur_residue), predicate)
          IN  /\ ResidueStep("Residue::remove_atoms_by", <<predicate>>, r, None, FALSE)
              /\ filtered_by' = predicate
    /\ only_add_atom' = FALSE

ResidueRemoveEmpty ==
    /\ OnResidue
    /\ Idle
    /\ IsSome(cur_residue)
    /\ ResidueStep("Residue::remove_empty", <<>>,
                   Residue_remove_empty(Unwrap(cur_residue)), None, FALSE)
    /\ UNCHANGED filtered_by
    /\ only_add_atom' = FALSE

ResidueRemoveConformer ==
    /\ OnResidue
    /\ Idle
    /\ IsSome(cur_residue)
    /\ \E index \in 0..MaxConformers :
          LET r == Residue_remove_conformer(Unwrap(cur_residue), index)
          IN  ResidueStep("Residue::remove_conformer", <<index>>,
                          r.self, None, r.panic)
    /\ filtered_by' = "none"
    /\ only_add_atom' = FALSE

ResidueRemoveConformerById ==
    /\ OnResidue
    /\ Idle
    /\ IsSome(cur_residue)
    /\ \E id \in ConformerIds :
          LET r == Residue_remove_conformer_by_id(Unwrap(cur_residue), id)
          IN  ResidueStep("Residue::remove_conformer_by_id", <<id>>,
                          r.self, r.ret, r.panic)
    /\ filtered_by' = "none"
    /\ only_add_atom' = FALSE

ResidueJoin ==
    /\ OnResidue
    /\ Idle
    /\ IsSome(cur_residue)
    /\ \E other \in JoinResidues :
          LET r == Residue_join(Unwrap(cur_residue), other)
          IN  /\ WithinBounds(r)
              /\ ResidueStep("Residue::join", <<other>>, r, None, FALSE)
    /\ filtered_by' = "none"
    /\ only_add_atom' = FALSE

(* PDB *)

OnPDB == subject = "PDB" /\ ~panicked

PDBStep(name, args, new_models, new_buffer, v, panic) ==
    /\ pdb_models' = new_models
    /\ pdb_buffer' = new_buffer
    /\ prev_models' = pdb_models
    /\ prev_buffer' = pdb_buffer
    /\ ret' = v
    /\ panicked' = panic
    /\ op' = Call(name, args)
    /\ UNCHANGED <<subject, conformerVars, residueVars>>

\* Vec::push allocates the buffer on the first push and may move it to
\* another address on a later one (Vec promises no growth strategy)
PDBAddModel ==
    /\ OnPDB
    /\ Idle \/ op.name = "init"
    /\ Len(pdb_models) < MaxModels
    /\ \E new_model \in NewModels, buf \in BufferAddresses :
          /\ LET r == PDB_add_model(pdb_models, new_model, buf)
             IN  PDBStep("PDB::add_model", <<new_model>>, r.models, r.buffer,
                         None, FALSE)
    /\ UNCHANGED explicit_fixup

PDBFixPointersOfChildren ==
    /\ OnPDB
    /\ Idle \/ op.name = "init"
    /\ PDBStep("PDB::fix_pointers_of_children", <<>>,
               PDB_fix_pointers_of_children(pdb_models, pdb_buffer), pdb_buffer,
               None, FALSE)
    /\ explicit_fixup' = TRUE

PDBRemoveModel ==
    /\ OnPDB
    /\ Idle \/ op.name = "init"
    /\ \E index \in 0..MaxModels :
          LET r == PDB_remove_model(pdb_models, index)
          IN  PDBStep("PDB::remove_model", <<index>>, r.models, pdb_buffer,
                      None, r.panic)
    /\ UNCHANGED explicit_fixup

PDBRemoveModelSerialNumber ==
    /\ OnPDB
    /\ Idle \/ op.name = "init"
    /\ \E serial_number \in ModelSerialNumbers :
          LET r == PDB_remove_model_serial_number(pdb_models, serial_number)
          IN  PDBStep("PDB::remove_model_serial_number", <<serial_number>>,
                      r.models, pdb_buffer, r.ret, r.panic)
    /\ UNCHANGED explicit_fixup

\* the caller moves on: the record of the call that returned is dropped
Forget ==
    /\ ~panicked
    /\ op.name \notin {"init", "idle"}
    /\ op' = Call("idle", <<>>)
    /\ ret' = None
    /\ prev_conformer' = cur_conformer
    /\ prev_residue' = cur_residue
    /\ prev_models' = pdb_models
    /\ prev_buffer' = pdb_buffer
    /\ UNCHANGED <<subject, panicked, cur_conformer, cur_residue, filtered_by,
                   only_add_atom,
                   pdb_models, pdb_buffer, explicit_fixup>>

Next ==
    \/ ConformerNew
    \/ ConformerSetName
    \/ ConformerSetAlternativeLocation
    \/ ConformerSetModification
    \/ ConformerAddAtom
    \/ ConformerRemoveAtom
    \/ ConformerRemoveAtomBySerialNumber
    \/ ConformerRemoveAtomByName
    \/ ConformerJoin
    \/ ConformerClone
    \/ ResidueNew
    \/ ResidueSetInsertionCode
    \/ ResidueAddConformer
    \/ ResidueAddAtom
    \/ ResidueRemoveAtomsBy
    \/ ResidueRemoveEmpty
    \/ ResidueRemoveConformer
    \/ ResidueRemoveConformerById
    \/ ResidueJoin
    \/ PDBAddModel
    \/ PDBFixPointersOfChildren
    \/ PDBRemoveModel
    \/ PDBRemoveModelSerialNumber
    \/ Forget

Spec == Init /\ [][Next]_vars

----------------------------------------------------------------------------
(* Properties *)

Min(S) == CHOOSE i \in S : \A j \in S : i <= j

\* the back-references of the model at 0-based index i and of its chains
\* point at the PDB that owns it and at the place the model is now
BackReferencesValid(i) ==
    /\ pdb_models[i + 1].pdb = PdbAddress
    /\ \A c \in 1..Len(pdb_models[i + 1].chains) :
          pdb_models[i + 1].chains[c].model = ModelAddress(pdb_buffer, i)

\* C1: when add_model returns, the model is the last of the list (the
\* models before it are still there, in order) and the new model and every
\* descendant of it hold a back-reference to their current owner, up to
\* the PDB.
C1_AddModelFixesNewSubtree ==
    op.name = "PDB::add_model" =>
        LET n == Len(pdb_models)
        IN  /\ n = Len(prev_models) + 1
            /\ \A i \in 1..(n - 1) :
                  pdb_models[i].serial_number = prev_models[i].serial_number
            /\ pdb_models[n].serial_number = op.args[1].serial_number
            /\ Len(pdb_models[n].chains) = Len(op.args[1].chains)
            /\ BackReferencesValid(n - 1)

\* C2: after any sequence of add_model, remove_model and
\* remove_model_serial_number calls, every model in the list and every
\* chain of it has back-references that resolve to its current owner and
\* finally to the PDB.
C2_BackReferencesResolve ==
    ~explicit_fixup =>
        \A i \in 0..(Len(pdb_models) - 1) : BackReferencesValid(i)

ValidConformer(c) ==
    /\ valid_identifier(c.name)
    /\ IsSome(c.alternative_location) =>
          valid_identifier(Unwrap(c.alternative_location))
    /\ IsSome(c.modification) =>
          /\ valid_identifier(Unwrap(c.modification)[1])
          /\ valid_text(Unwrap(c.modification)[2])

\* C3: whatever the constructors and setters were given, every stored
\* identifier (conformer name, alternative location, insertion code,
\* standard name of a modification) is a valid identifier and every stored
\* modification comment is valid text.
C3_StoredFieldsValid ==
    /\ IsSome(cur_conformer) => ValidConformer(Unwrap(cur_conformer))
    /\ IsSome(cur_residue) =>
          LET r == Unwrap(cur_residue)
          IN  /\ IsSome(r.insertion_code) =>
                    valid_identifier(Unwrap(r.insertion_code))
              /\ \A i \in 1..Len(r.conformers) : ValidConformer(r.conformers[i])

C3_Witness ==
    /\ op.name = "Conformer::set_name"
    /\ ~valid_identifier(op.args[1])
    /\ IsSome(Unwrap(cur_conformer).alternative_location)
    /\ IsSome(Unwrap(cur_conformer).modification)

\* the setters and Residue::new fail on an identifier with a character
\* outside the alphabet and leave the entity as it was
SettersRejectInvalid ==
    /\ (op.name = "Conformer::set_name" /\ ~valid_identifier(op.args[1])) =>
          ret = FALSE /\ cur_conformer = prev_conformer
    /\ (op.name = "Conformer::set_alternative_location"
            /\ ~valid_identifier(op.args[1])) =>
          ret = FALSE /\ cur_conformer = prev_conformer
    /\ (op.name = "Conformer::set_modification"
            /\ ~valid_identifier(op.args[1][1])) =>
          ret = "Err: standard name" /\ cur_conformer = prev_conformer
    /\ (op.name = "Residue::new" /\ IsSome(op.args[2])
            /\ ~valid_identifier(Unwrap(op.args[2]))) =>
          ret = None /\ cur_residue = prev_residue
    /\ (op.name = "Residue::set_insertion_code"
            /\ ~valid_identifier(op.args[1])) =>
          ret = FALSE /\ cur_residue = prev_residue

\* C4 as stated: every constructor or setter handed an identifier with a
\* character outside the identifier alphabet returns its failure result and
\* leaves the entity unchanged, Conformer::new for an invalid alt_loc too.
C4_Original ==
    /\ SettersRejectInvalid
    /\ (op.name = "Conformer::new"
            /\ (\/ ~valid_identifier(op.args[1])
                \/ IsSome(op.args[2]) /\ ~valid_identifier(Unwrap(op.args[2])))) =>
          ret = None /\ cur_conformer = prev_conformer

\* C4 as amended: every constructor or setter handed an identifier with a
\* character outside the identifier alphabet returns its failure result and
\* leaves the entity unchanged, except that Conformer::new fails only for
\* an invalid name: given a valid name and an invalid alt_loc it returns a
\* conformer whose alternative location is none.
C4_InvalidIdentifierRejected ==
    /\ SettersRejectInvalid
    /\ (op.name = "Conformer::new" /\ ~valid_identifier(op.args[1])) =>
          ret = None /\ cur_conformer = prev_conformer
    /\ (op.name = "Conformer::new" /\ valid_identifier(op.args[1])
            /\ IsSome(op.args[2]) /\ ~valid_identifier(Unwrap(op.args[2]))) =>
          IsSome(ret) /\ Unwrap(ret).alternative_location = None

C4_Witness ==
    /\ op.name = "Residue::set_insertion_code"
    /\ ~valid_identifier(op.args[1])
    /\ IsSome(Unwrap(prev_residue).insertion_code)
    /\ Len(Unwrap(prev_residue).conformers) > 0

\* C5: Conformer::new returns nothing exactly when the name fails
\* canonicalisation; an alt_loc that fails it gives a conformer without
\* alternative location; a conformer that is returned holds the canonical
\* name, no modification and exactly the atom given, if any.
C5_ConformerNew ==
    op.name = "Conformer::new" =>
        LET name == op.args[1]
            alt_loc == op.args[2]
            atom == op.args[3]
        IN  /\ ret = None <=> prepare_identifier(name) = None
            /\ cur_conformer = ret
            /\ IsSome(ret) =>
                  /\ Unwrap(ret).name = Unwrap(prepare_identifier(name))
                  /\ Unwrap(ret).modification = None
                  /\ Unwrap(ret).atoms = (IF IsSome(atom) THEN <<Unwrap(atom)>> ELSE <<>>)
                  /\ alt_loc = None => Unwrap(ret).alternative_location = None
                  /\ (IsSome(alt_loc) /\ prepare_identifier(Unwrap(alt_loc)) = None) =>
                        Unwrap(ret).alternative_location = None
                  /\ (IsSome(alt_loc) /\ IsSome(prepare_identifier(Unwrap(alt_loc)))) =>
                        Unwrap(ret).alternative_location =
                            prepare_identifier(Unwrap(alt_loc))

C5_Witness ==
    /\ op.name = "Conformer::new"
    /\ IsSome(ret)
    /\ IsSome(op.args[2])
    /\ ~valid_identifier(Unwrap(op.args[2]))
    /\ IsSome(op.args[3])

\* C6: Residue::new returns nothing exactly when an insertion code is given
\* and is not a valid identifier, whatever the serial number; a residue
\* built from a given code holds its canonical form, and its conformer
\* list is the conformer given, if any.
C6_ResidueNew ==
    op.name = "Residue::new" =>
        LET insertion_code == op.args[2]
            conformer0 == op.args[3]
        IN  /\ ret = None <=>
                  (IsSome(insertion_code) /\ ~valid_identifier(Unwrap(insertion_code)))
            /\ cur_residue = ret
            /\ IsSome(ret) =>
                  /\ IsSome(insertion_code) =>
                        Unwrap(ret).insertion_code = Some(Canonical(Unwrap(insertion_code)))
                  /\ Unwrap(ret).conformers =
                        (IF IsSome(conformer0) THEN <<Unwrap(conformer0)>> ELSE <<>>)

C6_Witness ==
    /\ op.name = "Residue::new"
    /\ IsSome(ret)
    /\ IsSome(op.args[2])
    /\ Canonical(Unwrap(op.args[2])) # Unwrap(op.args[2])
    /\ IsSome(op.args[3])
    /\ op.args[1] = 0

\* C7 as stated: add_atom with a conformer_id whose name is a valid
\* identifier appends the atom to the first conformer whose id() equals
\* conformer_id, leaving the list as long as it was; without such a
\* conformer it appends one new conformer that has that identity and holds
\* just that atom; no other conformer changes.
C7_AddAtom ==
    (op.name = "Residue::add_atom" /\ valid_identifier(op.args[2][1])) =>
        LET new_atom == op.args[1]
            conformer_id == op.args[2]
            old == Unwrap(prev_residue).conformers
            new == Unwrap(cur_residue).conformers
            matching == {i \in 1..Len(old) : Conformer_id(old[i]) = conformer_id}
        IN  /\ ~panicked
            /\ matching # {} =>
                  /\ Len(new) = Len(old)
                  /\ new[Min(matching)].atoms = Append(old[Min(matching)].atoms, new_atom)
                  /\ Conformer_id(new[Min(matching)]) = conformer_id
                  /\ \A i \in 1..Len(old) : i # Min(matching) => new[i] = old[i]
            /\ matching = {} =>
                  /\ Len(new) = Len(old) + 1
                  /\ \A i \in 1..Len(old) : new[i] = old[i]
                  /\ Conformer_id(new[Len(new)]) = conformer_id
                  /\ new[Len(new)].atoms = <<new_atom>>

\* the number of (conformer, atom) places of a residue
AtomPlaces(r) ==
    UNION {{<<i, j>> : j \in 1..Len(r.conformers[i].atoms)} : i \in 1..Len(r.conformers)}

\* C8: in every state of a Residue, atom_count() is the sum of the atom
\* counts of its conformers (0 without conformers) and the number of items
\* atoms() yields.
C8_AtomCountIsSum ==
    IsSome(cur_residue) =>
        LET r == Unwrap(cur_residue)
        IN  /\ Residue_atom_count(r) = Cardinality(AtomPlaces(r))
            /\ Residue_atom_count(r) = Len(Residue_atoms(r))
            /\ Len(r.conformers) = 0 => Residue_atom_count(r) = 0

C8_Witness ==
    /\ IsSome(cur_residue)
    /\ op.name \in {"Residue::add_atom", "Residue::join"}
    /\ Len(Unwrap(cur_residue).conformers) = 2
    /\ \A i \in 1..2 : Len(Unwrap(cur_residue).conformers[i].atoms) = 1

\* names a conformer of the model can have
ConformerNames == {Canonical(id[1]) : id \in ConformerIds}

\* C9: name() is Some(x) exactly when the residue has a conformer and every
\* conformer is named x; it is None without conformers and when two
\* conformers differ in name.
C9_ResidueName ==
    IsSome(cur_residue) =>
        LET r == Unwrap(cur_residue)
            n == Len(r.conformers)
        IN  /\ \A x \in ConformerNames :
                  Residue_name(r) = Some(x) <=>
                      (n >= 1 /\ \A i \in 1..n : r.conformers[i].name = x)
            /\ n = 0 => Residue_name(r) = None
            /\ (\E i, j \in 1..n : r.conformers[i].name # r.conformers[j].name) =>
                  Residue_name(r) = None

C9_Witness ==
    /\ IsSome(cur_residue)
    /\ Len(Unwrap(cur_residue).conformers) = 2
    /\ Unwrap(cur_residue).conformers[1].name = Unwrap(cur_residue).conformers[2].name
    /\ Unwrap(cur_residue).conformers[1].alternative_location
          # Unwrap(cur_residue).conformers[2].alternative_location

\* after is before without the elements failing Keep, in the same order
IsSelection(after, before, Keep(_)) ==
    LET kept == {j \in 1..Len(before) : Keep(before[j])}
    IN  /\ Len(after) = Cardinality(kept)
        /\ \A j \in kept : after[Cardinality({k \in kept : k <= j})] = before[j]

\* C10: remove_atoms_by(p) leaves in each conformer the atoms that do not
\* satisfy p, in order, and removes no conformer; remove_empty then removes
\* the conformers without atoms and keeps the others in order.  So no atom
\* satisfying p remains, and after an always-true p and remove_empty the
\* residue has no conformer and no atom.
C10_RemoveAtomsThenEmpty ==
    /\ op.name = "Residue::remove_atoms_by" =>
          LET old == Unwrap(prev_residue).conformers
              new == Unwrap(cur_residue).conformers
          IN  /\ Len(new) = Len(old)
              /\ \A i \in 1..Len(old) :
                    /\ IsSelection(new[i].atoms, old[i].atoms,
                                   LAMBDA atom : ~Holds(op.args[1], atom))
                    /\ Conformer_id(new[i]) = Conformer_id(old[i])
              /\ \A k \in 1..Len(Residue_atoms(Unwrap(cur_residue))) :
                    ~Holds(op.args[1], Residue_atoms(Unwrap(cur_residue))[k])
    /\ op.name = "Residue::remove_empty" =>
          /\ IsSelection(Unwrap(cur_residue).conformers,
                         Unwrap(prev_residue).conformers,
                         LAMBDA c : Len(c.atoms) > 0)
          /\ filtered_by # "none" =>
                \A k \in 1..Len(Residue_atoms(Unwrap(cur_residue))) :
                    ~Holds(filtered_by, Residue_atoms(Unwrap(cur_residue))[k])
          /\ filtered_by = "always" =>
                /\ Unwrap(cur_residue).conformers = <<>>
                /\ Residue_atom_count(Unwrap(cur_residue)) = 0

C10_Witness ==
    /\ op.name = "Residue::remove_empty"
    /\ filtered_by = "hydrogen"
    /\ Len(Unwrap(prev_residue).conformers) = 2
    /\ Len(Unwrap(cur_residue).conformers) = 1
    /\ Len(Unwrap(cur_residue).conformers[1].atoms) = 1
    /\ Unwrap(cur_residue).conformers[1].atoms[1].serial_number = 1
    /\ Unwrap(cur_residue).conformers[1].atoms[1].element = "C"

\* after is before without its first element at one of the positions hits
\* (when there is one), all other elements in their order; found is the
\* value returned
FirstHitRemoved(after, before, hits, found) ==
    IF hits = {}
    THEN found = FALSE /\ after = before
    ELSE /\ found = TRUE
         /\ Len(after) = Len(before) - 1
         /\ \E k \in hits :
               /\ \A j \in hits : k <= j
               /\ \A i \in 1..Len(after) :
                     after[i] = IF i < k THEN before[i] ELSE before[i + 1]

IndexRemovals ==
    {"Conformer::remove_atom", "Residue::remove_conformer", "PDB::remove_model"}

IdentityRemovals ==
    {"Conformer::remove_atom_by_serial_number", "Conformer::remove_atom_by_name",
     "Residue::remove_conformer_by_id", "PDB::remove_model_serial_number"}

\* the length of the child list the call in op was made on
ChildCountBefore ==
    CASE subject = "Conformer" -> Len(Unwrap(prev_conformer).atoms)
      [] subject = "Residue" -> Len(Unwrap(prev_residue).conformers)
      [] subject = "PDB" -> Len(prev_models)

\* C11: the removals by identity (remove_atom_by_serial_number,
\* remove_atom_by_name, remove_conformer_by_id, remove_model_serial_number)
\* never panic: with no matching child they return false and leave the
\* children as they were, with a matching child they return true and remove
\* exactly the first one, the others keeping their order; a removal panics
\* only when it is remove_atom, remove_conformer or remove_model with an
\* index not below the length.
C11_IdentityRemovals ==
    /\ op.name \in IdentityRemovals => ~panicked
    /\ op.name = "Conformer::remove_atom_by_serial_number" =>
          LET before == Unwrap(prev_conformer)
              after == Unwrap(cur_conformer)
          IN  /\ FirstHitRemoved(after.atoms, before.atoms,
                                 {i \in 1..Len(before.atoms) :
                                     before.atoms[i].serial_number = op.args[1]},
                                 ret)
              /\ after = [before EXCEPT !.atoms = after.atoms]
    /\ op.name = "Conformer::remove_atom_by_name" =>
          LET before == Unwrap(prev_conformer)
              after == Unwrap(cur_conformer)
          IN  /\ FirstHitRemoved(after.atoms, before.atoms,
                                 {i \in 1..Len(before.atoms) :
                                     before.atoms[i].name = op.args[1]},
                                 ret)
              /\ after = [before EXCEPT !.atoms = after.atoms]
    /\ op.name = "Residue::remove_conformer_by_id" =>
          LET before == Unwrap(prev_residue)
              after == Unwrap(cur_residue)
          IN  /\ FirstHitRemoved(after.conformers, before.conformers,
                                 {i \in 1..Len(before.conformers) :
                                     Conformer_id(before.conformers[i]) = op.args[1]},
                                 ret)
              /\ after = [before EXCEPT !.conformers = after.conformers]
    /\ op.name = "PDB::remove_model_serial_number" =>
          FirstHitRemoved(pdb_models, prev_models,
                          {i \in 1..Len(prev_models) :
                              prev_models[i].serial_number = op.args[1]},
                          ret)
    /\ (panicked /\ op.name \in IndexRemovals \cup IdentityRemovals) =>
          /\ op.name \in IndexRemovals
          /\ op.args[1] >= ChildCountBefore

\* a removal by serial number from two different atoms with that serial
\* number
C11_Witness ==
    /\ op.name = "Conformer::remove_atom_by_serial_number"
    /\ ret = TRUE
    /\ LET before == Unwrap(prev_conformer).atoms
       IN  /\ Len(before) = 2
           /\ before[1] # before[2]
           /\ before[1].serial_number = op.args[1]
           /\ before[2].serial_number = op.args[1]

\* after is before followed by added, each in its order
Concatenated(after, before, added) ==
    /\ Len(after) = Len(before) + Len(added)
    /\ \A i \in 1..Len(before) : after[i] = before[i]
    /\ \A i \in 1..Len(added) : after[Len(before) + i] = added[i]

\* C12: A.join(B) leaves A's children equal to A's previous children
\* followed by B's, each group in its order, and leaves A's own data as it
\* was (serial number and insertion code of a Residue; name, alternative
\* location and modification of a Conformer): B's are discarded.
C12_Join ==
    /\ op.name = "Residue::join" =>
          LET before == Unwrap(prev_residue)
              after == Unwrap(cur_residue)
              other == op.args[1]
          IN  /\ Concatenated(after.conformers, before.conformers, other.conformers)
              /\ Residue_serial_number(after) = Residue_serial_number(before)
              /\ Residue_insertion_code(after) = Residue_insertion_code(before)
    /\ op.name = "Conformer::join" =>
          LET before == Unwrap(prev_conformer)
              after == Unwrap(cur_conformer)
              other == op.args[1]
          IN  /\ Concatenated(after.atoms, before.atoms, other.atoms)
              /\ Conformer_name(after) = Conformer_name(before)
              /\ Conformer_alternative_location(after) =
                    Conformer_alternative_location(before)
              /\ Conformer_modification(after) = Conformer_modification(before)

\* a Conformer with an atom joined with one of other data and another atom
C12_Witness ==
    /\ op.name = "Conformer::join"
    /\ LET before == Unwrap(prev_conformer)
           other == op.args[1]
       IN  /\ Len(before.atoms) > 0
           /\ Len(other.atoms) > 0
           /\ before.atoms[1] # other.atoms[1]
           /\ Conformer_id(before) # Conformer_id(other)
           /\ Conformer_modification(before) # Conformer_modification(other)

\* C13: a Residue built with no conformer and grown by add_atom calls that
\* did not panic, whatever the conformer_id handed in, has no two
\* conformers with the same id().
C13_AddAtomKeepsIdsUnique ==
    (only_add_atom /\ ~panicked) =>
        LET conformers == Unwrap(cur_residue).conformers
        IN  \A i, j \in 1..Len(conformers) :
              Conformer_id(conformers[i]) = Conformer_id(conformers[j]) => i = j

\* C14: the clone of a Conformer has the name, the alternative location,
\* the atoms and the modification() of the original, so a conformer equal
\* (==) to its clone does not differ from it in the modification.
C14_CloneAgrees ==
    (op.name = "Conformer::clone" /\ ~panicked) =>
        LET original == Unwrap(cur_conformer)
            clone == Unwrap(ret)
        IN  /\ Conformer_name(clone) = Conformer_name(original)
            /\ Conformer_alternative_location(clone) =
                  Conformer_alternative_location(original)
            /\ Conformer_atoms(clone) = Conformer_atoms(original)
            /\ Conformer_modification(clone) = Conformer_modification(original)
            /\ Conformer_eq(clone, original)

====
